---- MODULE Spec2Model ----
(***************************************************************************)
(* getClosestProtoVersion of lnd-grpc (src/src/index.js, lines 186-266):   *)
(* the normalisation of lnd's version string and the selection of the      *)
(* closest rpc.proto version from the directory listing.                   *)
(*                                                                         *)
(* A JavaScript string is a sequence of one-character strings, so that     *)
(* split, join, replace, startsWith, semver's parsing and its formatting   *)
(* are computed character by character.                                    *)
(***************************************************************************)
EXTENDS Integers, Sequences, FiniteSets, TLC

VARIABLES pc, versionString, version, parse, warned, versions, match

vars == <<pc, versionString, version, parse, warned, versions, match>>

----------------------------------------------------------------------------
(* Characters *)

Digits == <<"0", "1", "2", "3", "4", "5", "6", "7", "8", "9">>

\* The characters of the model in code-unit order (what `a < b` compares).
Alphabet ==
    <<" ", "+", ",", "-", ".", "0", "1", "2", "3", "4", "5", "6", "7", "8",
      "9", "=", "a", "b", "c", "e", "g", "i", "l", "m", "n", "o", "p", "r",
      "t", "u", "v">>

IsDigit(c) == \E i \in 1..Len(Digits) : Digits[i] = c

\* [a-zA-Z-] of semver's identifier patterns
IsLetterOrDash(c) ==
    /\ \E i \in 1..Len(Alphabet) : Alphabet[i] = c
    /\ ~IsDigit(c)
    /\ c \notin {" ", "+", ",", ".", "="}

DigitVal(c) == (CHOOSE i \in 1..Len(Digits) : Digits[i] = c) - 1

Ord(c) == CHOOSE i \in 1..Len(Alphabet) : Alphabet[i] = c

----------------------------------------------------------------------------
(* JavaScript string and array primitives *)

\* String.prototype.split with a one-character separator
RECURSIVE Split(_, _)
Split(s, sep) ==
    IF \A i \in 1..Len(s) : s[i] # sep
    THEN <<s>>
    ELSE LET i == CHOOSE k \in 1..Len(s) :
                      s[k] = sep /\ \A j \in 1..(k - 1) : s[j] # sep
         IN  <<SubSeq(s, 1, i - 1)>> \o Split(SubSeq(s, i + 1, Len(s)), sep)

\* Array.prototype.join
RECURSIVE Join(_, _)
Join(parts, sep) ==
    IF parts = <<>> THEN <<>>
    ELSE IF Len(parts) = 1 THEN parts[1]
    ELSE parts[1] \o sep \o Join(Tail(parts), sep)

\* Array.prototype.slice(0, n)
Slice0(arr, n) == SubSeq(arr, 1, IF Len(arr) < n THEN Len(arr) ELSE n)

\* String.prototype.startsWith
StartsWith(s, p) == Len(p) <= Len(s) /\ SubSeq(s, 1, Len(p)) = p

\* String.prototype.replace(pattern, replacement) with a string pattern:
\* the first occurrence only.
Replace(s, pat, rep) ==
    LET Occ == {i \in 1..(Len(s) - Len(pat) + 1) :
                    SubSeq(s, i, i + Len(pat) - 1) = pat}
    IN  IF Occ = {} THEN s
        ELSE LET i == CHOOSE k \in Occ : \A j \in Occ : k <= j
             IN  SubSeq(s, 1, i - 1) \o rep \o SubSeq(s, i + Len(pat), Len(s))

\* /^\d+$/.test(s) on a string
AllDigits(s) == Len(s) > 0 /\ \A i \in 1..Len(s) : IsDigit(s[i])

RECURSIVE StrToNat(_)
StrToNat(s) ==
    IF s = <<>> THEN 0
    ELSE 10 * StrToNat(SubSeq(s, 1, Len(s) - 1)) + DigitVal(s[Len(s)])

RECURSIVE NatToStr(_)
NatToStr(n) ==
    IF n < 10 THEN <<Digits[n + 1]>>
    ELSE NatToStr(n \div 10) \o <<Digits[(n % 10) + 1]>>

\* A JavaScript number: a natural number or NaN.
Num(n) == [nan |-> FALSE, n |-> n]
NaN == [nan |-> TRUE, n |-> 0]

\* Number(string), for strings of digits, letters, ',' and '-': the empty
\* string is 0, a string of digits its value, anything else NaN.
NumberOfStr(s) ==
    IF s = <<>> THEN Num(0)
    ELSE IF AllDigits(s) THEN Num(StrToNat(s))
    ELSE NaN

\* Number(array) is Number(array.join(','))
NumberOfArr(arr) == NumberOfStr(Join(arr, <<",">>))

\* Lexicographic comparison of two strings by code unit: -1, 0 or 1.
RECURSIVE StrCmp(_, _)
StrCmp(a, b) ==
    IF a = <<>> /\ b = <<>> THEN 0
    ELSE IF a = <<>> THEN -1
    ELSE IF b = <<>> THEN 1
    ELSE IF Ord(a[1]) < Ord(b[1]) THEN -1
    ELSE IF Ord(a[1]) > Ord(b[1]) THEN 1
    ELSE StrCmp(Tail(a), Tail(b))

----------------------------------------------------------------------------
(* semver 5.x, as index.js uses it (strict mode) *)

\* NUMERICIDENTIFIER: 0|[1-9]\d*
IsNumericId(s) == AllDigits(s) /\ (Len(s) = 1 \/ s[1] # "0")

\* NONNUMERICIDENTIFIER: \d*[a-zA-Z-][a-zA-Z0-9-]*
IsNonNumericId(s) ==
    /\ Len(s) > 0
    /\ \A i \in 1..Len(s) : IsDigit(s[i]) \/ IsLetterOrDash(s[i])
    /\ \E i \in 1..Len(s) : IsLetterOrDash(s[i])

\* PRERELEASEIDENTIFIER
IsPrereleaseId(s) == IsNumericId(s) \/ IsNonNumericId(s)

\* BUILDIDENTIFIER: [0-9A-Za-z-]+
IsBuildId(s) ==
    /\ Len(s) > 0
    /\ \A i \in 1..Len(s) : IsDigit(s[i]) \/ IsLetterOrDash(s[i])

\* What semver.parse returns for a string that does not match: null.
NoSemVer ==
    [ok |-> FALSE, major |-> 0, minor |-> 0, patch |-> 0,
     prerelease |-> <<>>, build |-> <<>>]

\* semver.parse(s): the FULL pattern
\*   ^v?MAIN(?:-PRERELEASE)?(?:\+BUILD)?$
\* matched in steps: the text after the first '+' is the build metadata, the
\* text between the first '-' and it the prerelease, the rest the three
\* numbers. A prerelease identifier is kept as its text; the SemVer
\* constructor turns the all-digit ones into numbers (see IsNumberTyped).
ParseIds(core, preIds, buildIds, nPlus) ==
    IF /\ nPlus <= 2
       /\ \A i \in 1..Len(buildIds) : IsBuildId(buildIds[i])
       /\ Len(core) = 3
       /\ \A i \in 1..Len(core) : IsNumericId(core[i])
       /\ \A i \in 1..Len(preIds) : IsPrereleaseId(preIds[i])
    THEN [ok |-> TRUE, major |-> StrToNat(core[1]),
          minor |-> StrToNat(core[2]), patch |-> StrToNat(core[3]),
          prerelease |-> preIds, build |-> buildIds]
    ELSE NoSemVer

\* The position of the first '-', or one past the end
FirstDash(main) ==
    IF \E i \in 1..Len(main) : main[i] = "-"
    THEN CHOOSE i \in 1..Len(main) :
             main[i] = "-" /\ \A j \in 1..(i - 1) : main[j] # "-"
    ELSE Len(main) + 1

ParseAt(main, d, buildIds, nPlus) ==
    ParseIds(Split(SubSeq(main, 1, d - 1), "."),
             IF d <= Len(main)
             THEN Split(SubSeq(main, d + 1, Len(main)), ".") ELSE <<>>,
             buildIds, nPlus)

ParsePlus(plus) ==
    ParseAt(plus[1], FirstDash(plus[1]),
            IF Len(plus) >= 2 THEN Split(plus[2], ".") ELSE <<>>,
            Len(plus))

Parse(s) ==
    ParsePlus(Split(IF Len(s) > 0 /\ s[1] = "v" THEN Tail(s) ELSE s, "+"))

\* An identifier the SemVer constructor stored as a Number (/^[0-9]+$/).
IsNumberTyped(id) == AllDigits(id)

\* SemVer.prototype.format: major.minor.patch[-prerelease joined by '.'];
\* the build metadata is not part of it.
Format(p) ==
    LET main == NatToStr(p.major) \o <<".">> \o NatToStr(p.minor)
                    \o <<".">> \o NatToStr(p.patch)
    IN  IF p.prerelease = <<>> THEN main
        ELSE main \o <<"-">> \o Join(p.prerelease, <<".">>)

\* compareIdentifiers: numbers numerically, a number below a string,
\* strings by code unit.
CompareIdentifiers(a, b) ==
    IF AllDigits(a) /\ AllDigits(b)
    THEN (IF StrToNat(a) = StrToNat(b) THEN 0
          ELSE IF StrToNat(a) < StrToNat(b) THEN -1 ELSE 1)
    ELSE IF AllDigits(a) THEN -1
    ELSE IF AllDigits(b) THEN 1
    ELSE StrCmp(a, b)

\* SemVer.prototype.comparePre
RECURSIVE ComparePreFrom(_, _, _)
ComparePreFrom(a, b, i) ==
    IF i > Len(a) /\ i > Len(b) THEN 0
    ELSE IF i > Len(b) THEN 1
    ELSE IF i > Len(a) THEN -1
    ELSE IF a[i] = b[i] THEN ComparePreFrom(a, b, i + 1)
    ELSE CompareIdentifiers(a[i], b[i])

ComparePre(a, b) ==
    IF a # <<>> /\ b = <<>> THEN -1
    ELSE IF a = <<>> /\ b # <<>> THEN 1
    ELSE IF a = <<>> /\ b = <<>> THEN 0
    ELSE ComparePreFrom(a, b, 1)

NumCmp(x, y) == IF x = y THEN 0 ELSE IF x < y THEN -1 ELSE 1

\* SemVer.prototype.compare: compareMain || comparePre (build ignored)
Compare(p, q) ==
    IF p.major # q.major THEN NumCmp(p.major, q.major)
    ELSE IF p.minor # q.minor THEN NumCmp(p.minor, q.minor)
    ELSE IF p.patch # q.patch THEN NumCmp(p.patch, q.patch)
    ELSE ComparePre(p.prerelease, q.prerelease)

\* s.replace(/^[=v]+/, '')
RECURSIVE StripEqV(_)
StripEqV(s) ==
    IF Len(s) > 0 /\ s[1] \in {"=", "v"} THEN StripEqV(Tail(s)) ELSE s

\* semver.clean(s): the version text of the parsed string, or null (<<>>).
\* (No string of the model has leading or trailing whitespace to trim.)
VersionOf(p) == IF p.ok THEN <<Format(p)>> ELSE <<>>

Clean(s) == VersionOf(Parse(StripEqV(s)))

----------------------------------------------------------------------------
(* getClosestProtoVersion: normalisation (index.js 188-224) *)

Space == " "
CommitMarker == <<"c", "o", "m", "m", "i", "t", "=">>
Beta == <<"b", "e", "t", "a">>

\* The value of a variable that holds null or undefined, as a result string.
Null == <<"null">>

\* `parse` before line 208 assigns it
ParseUndefined == [kind |-> "undefined", prerelease |-> <<>>, build |-> <<>>]
\* `parse` when semver.parse(version) returned null
ParseNull == [kind |-> "null", prerelease |-> <<>>, build |-> <<>>]

\* Line 196 reading (commitString || version)
CommitString_OrVersion(parts) ==
    IF Len(parts) >= 2 THEN <<parts[2]>> ELSE <<parts[1]>>

\* let [version, commitString] = versionString.split(' '): the second
\* element, <<>> when it is undefined.
CommitString(parts) == IF Len(parts) >= 2 THEN <<parts[2]>> ELSE <<>>

\* parse.prerelease[0].split('-').filter(p => p !== 'beta')
PrereleaseParts(id) == SelectSeq(Split(id, "-"), LAMBDA p : p # Beta)

\* /^\d+$/.test(prerelease[0]); an empty array gives 'undefined', no match
FirstIsNumeric(prerelease) == prerelease # <<>> /\ AllDigits(prerelease[1])

\* Lines 188-224. The result is the `version` and `parse` that line 225
\* sees, and whether the catch block ran (console.warn).

\* The catch block after a throw before line 203: version is still the
\* first token and parse is undefined.
Fallback(version0) ==
    [version |-> version0, parse |-> ParseUndefined, warned |-> TRUE]

\* Lines 220-221: parse.format() is the version
Formatted(parsed) ==
    [version |-> Format(parsed),
     parse |-> [kind |-> "SemVer", prerelease |-> parsed.prerelease,
                build |-> parsed.build],
     warned |-> FALSE]

\* Lines 213-218
WithPrerelease(p, prerelease) ==
    IF FirstIsNumeric(prerelease)
    THEN Formatted([p EXCEPT !.prerelease = <<>>,
                             !.build = <<NumberOfArr(prerelease)>>])
    ELSE Formatted([p EXCEPT !.prerelease = prerelease])

\* Lines 208-210. parse.prerelease[0].split throws when semver.parse gave
\* null, when the version has no prerelease (undefined) and when its first
\* identifier is a Number: the catch block then runs after lines 203 and 208
\* assigned version and parse.
WithParsed(version1, p) ==
    IF ~p.ok
    THEN [version |-> version1, parse |-> ParseNull, warned |-> TRUE]
    ELSE IF p.prerelease = <<>> \/ IsNumberTyped(p.prerelease[1])
    THEN [version |-> version1,
          parse |-> [kind |-> "SemVer", prerelease |-> p.prerelease,
                     build |-> p.build],
          warned |-> TRUE]
    ELSE WithPrerelease(p, PrereleaseParts(p.prerelease[1]))

\* Lines 203-208
Truncated(version1) == WithParsed(version1, Parse(version1))

\* Lines 198-206: line 199 throws when semver.clean gave null
WithClean(version0, fullversionsemver) ==
    IF fullversionsemver = <<>> THEN Fallback(version0)
    ELSE Truncated(Join(Slice0(Split(fullversionsemver[1], "-"), 3), <<"-">>))

\* Line 196: commitString.replace throws when commitString is undefined
WithCommit(version0, commitString) ==
    IF commitString = <<>> THEN Fallback(version0)
    ELSE WithClean(version0,
                   Clean(Replace(commitString[1], CommitMarker, <<>>)))

NormalizeParts(parts) == WithCommit(parts[1], CommitString(parts))

Normalize(raw) == NormalizeParts(Split(raw, Space))

----------------------------------------------------------------------------
(* getClosestProtoVersion: selection (index.js 228-252) *)

\* versions.map(v => semver.parse(v).format()), line 231. semver.parse gives
\* null for an entry that is no semantic version, and null.format() throws.
AllParse(vs) == \A i \in 1..Len(vs) : Parse(vs[i]).ok

FilteredVersions(vs) == [i \in 1..Len(vs) |-> Format(Parse(vs[i]))]

\* rangeObj.test(v) for the range `<op> <version>`, includePrerelease: true.
\* The versions of the model hold no whitespace, no '||', no wildcard and
\* all three numbers, so the range is the one comparator <op><version> and
\* is valid exactly when <version> matches the FULL pattern.
Cmp(c, op) == IF op = "<=" THEN c <= 0 ELSE c >= 0

Satisfies(v, op, ver) == Cmp(Compare(Parse(v), Parse(ver)), op)

\* semver.maxSatisfying(vs, `${op} ${ver}`, {includePrerelease: true}):
\* null for an invalid range; otherwise the loop
\*   if (rangeObj.test(v)) if (!max || maxSV.compare(v) === -1) max = v
RECURSIVE MaxSatisfyingFrom(_, _, _, _, _)
MaxSatisfyingFrom(vs, i, op, ver, max) ==
    IF i > Len(vs) THEN max
    ELSE IF /\ Satisfies(vs[i], op, ver)
            /\ (max = Null \/ Compare(Parse(max), Parse(vs[i])) = -1)
    THEN MaxSatisfyingFrom(vs, i + 1, op, ver, vs[i])
    ELSE MaxSatisfyingFrom(vs, i + 1, op, ver, max)

\* The loop of a maxSatisfying that takes the listing to be sorted ascending:
\* the last version in range wins.
RECURSIVE LastSatisfyingFrom(_, _, _, _, _)
LastSatisfyingFrom(vs, i, op, ver, max) ==
    IF i > Len(vs) THEN max
    ELSE IF Satisfies(vs[i], op, ver)
    THEN LastSatisfyingFrom(vs, i + 1, op, ver, vs[i])
    ELSE LastSatisfyingFrom(vs, i + 1, op, ver, max)

MaxSatisfying_Sorted(vs, op, ver) ==
    IF ~Parse(ver).ok THEN Null ELSE LastSatisfyingFrom(vs, 1, op, ver, Null)

MaxSatisfying(vs, op, ver) ==
    IF ~Parse(ver).ok THEN Null ELSE MaxSatisfyingFrom(vs, 1, op, ver, Null)

\* Line 235 with the comparison turned round: `>= ${version}`
PrimaryMatch_Gte(filteredVersions, ver) ==
    MaxSatisfying(filteredVersions, ">=", ver)

\* Line 235: semver.maxSatisfying(filteredVersions, `<= ${version}`, ...)
PrimaryMatch(filteredVersions, ver) ==
    MaxSatisfying(filteredVersions, "<=", ver)

\* closestLower (258-266). val is the array parse.build, which `v <= val`
\* and `curr - val` convert to a number; null is <<>>.
RECURSIVE ReduceClosest(_, _, _, _)
ReduceClosest(arr, i, val, prev) ==
    IF i > Len(arr) THEN prev
    ELSE LET curr == arr[i]
             dc == IF curr.n >= val.n THEN curr.n - val.n ELSE val.n - curr.n
             dp == IF prev.n >= val.n THEN prev.n - val.n ELSE val.n - prev.n
         IN  ReduceClosest(arr, i + 1, val, IF dc < dp THEN curr ELSE prev)

Reduced(filteredArr, val) ==
    IF Len(filteredArr) = 0 THEN <<>>
    ELSE <<ReduceClosest(filteredArr, 2, val, filteredArr[1])>>

LowerThan(arr, val) ==
    Reduced(SelectSeq(arr, LAMBDA v : ~v.nan /\ ~val.nan /\ v.n <= val.n),
            val)

ClosestLower(arr, valArr) == LowerThan(arr, NumberOfArr(valArr))

\* Line 245 written closestMatch >= 0; null >= 0 is true
IsPositive_OrZero(closestMatch) ==
    closestMatch = <<>> \/ closestMatch[1].n >= 0

\* closestMatch > 0 (line 245); null > 0 is false
IsPositive(closestMatch) == closestMatch # <<>> /\ closestMatch[1].n > 0

\* `${closestMatch}` (line 246)
TemplateStr(closestMatch) ==
    IF closestMatch = <<>> THEN <<"n", "u", "l", "l">>
    ELSE NatToStr(closestMatch[1].n)

\* parse.build as the array of strings that Number() joins
BuildArr(build) ==
    [i \in 1..Len(build) |->
        IF build[i].nan THEN <<"N", "a", "N">> ELSE NatToStr(build[i].n)]

\* Lines 241-244: the closest build among the entries `${version}+...`
Builds(matchVersions) ==
    [i \in 1..Len(matchVersions) |->
        NumberOfStr(Split(matchVersions[i], "+")[2])]

ClosestBuild(ver, prs, vs) ==
    ClosestLower(
        Builds(SelectSeq(vs, LAMBDA v : StartsWith(v, ver \o <<"+">>))),
        BuildArr(prs.build))

\* Lines 245-247
Refined(ver, primary, closestMatch) ==
    IF IsPositive(closestMatch)
    THEN ver \o <<"+">> \o TemplateStr(closestMatch)
    ELSE primary

\* Lines 235-252
Matched(ver, prs, vs, primary) ==
    IF prs.kind = "SemVer" /\ Len(prs.build) > 0
    THEN Refined(ver, primary, ClosestBuild(ver, prs, vs))
    ELSE primary

\* Lines 228-252 once the listing is known: whether line 231 threw, and the
\* value returned.
Select(ver, prs, vs) ==
    IF ~AllParse(vs) THEN [threw |-> TRUE, match |-> Null]
    ELSE [threw |-> FALSE,
          match |-> Matched(ver, prs, vs,
                            PrimaryMatch(FilteredVersions(vs), ver))]

----------------------------------------------------------------------------
(* Inputs *)

\* The longest directory listing
MaxCatalog == 3

V040 == <<"0", ".", "4", ".", "0">>
V050 == <<"0", ".", "5", ".", "0">>
V051 == <<"0", ".", "5", ".", "1">>
V060 == <<"0", ".", "6", ".", "0">>
Rpc == <<"r", "p", "c">>
GitHash == <<"-", "g", "a", "b", "c">>

\* The first token of lnd's version string: canonical versions, and a text
\* that is no version at all.
VersionTokens == {V051 \o <<"-">> \o Beta, V051, V040, Rpc}

\* The second token, <<>> when the string has none:
\* `git describe` forms with a build count (8, 3, 0), the bare tag, a release
\* candidate, a version without prerelease, with a numeric prerelease, with
\* a count and no beta marker, a bare hash, a tag without the commit=
\* marker, and a version whose third dash follows a dot.
CommitTokens ==
    { CommitMarker \o <<"v">> \o V051 \o <<"-">> \o Beta \o <<"-", "8">> \o GitHash,
      CommitMarker \o <<"v">> \o V051 \o <<"-">> \o Beta \o <<"-", "3">> \o GitHash,
      CommitMarker \o <<"v">> \o V051 \o <<"-">> \o Beta \o <<"-", "0">> \o GitHash,
      CommitMarker \o <<"v">> \o V051 \o <<"-">> \o Beta,
      CommitMarker \o <<"v">> \o V051 \o <<"-">> \o Beta \o <<"-", "r", "c", "2">>,
      CommitMarker \o <<"v">> \o V051,
      CommitMarker \o <<"v">> \o V051 \o <<"-", "7">>,
      CommitMarker \o <<"v">> \o V051 \o <<"-", "8">> \o GitHash,
      CommitMarker \o Tail(GitHash),
      <<"v">> \o V051 \o <<"-">> \o Beta \o <<"-", "3">> \o GitHash,
      CommitMarker \o <<"v">> \o V051 \o <<"-", "r", "c", "-", "b", ".", "-", "c">> }

RawStrings ==
    VersionTokens \cup
    {v \o <<Space>> \o c : v \in VersionTokens, c \in CommitTokens}

\* The file stems a proto directory may hold: versions, versions with a
\* build number, and a file that is named after no version.
CatalogPool ==
    { V050,
      V051 \o <<"-">> \o Beta,
      V051 \o <<"+", "0">>,
      V051 \o <<"+", "3">>,
      V051 \o <<"+", "7">>,
      V060,
      Rpc }

\* A directory listing: distinct names, in any order.
Catalogs ==
    UNION { {c \in [1..n -> CatalogPool] :
                \A i, j \in 1..n : i # j => c[i] # c[j]} : n \in 0..MaxCatalog }

----------------------------------------------------------------------------
(* The state machine: one call of getClosestProtoVersion *)

Init ==
    /\ pc = "start"
    /\ versionString \in RawStrings
    /\ version = <<>>
    /\ parse = ParseUndefined
    /\ warned = FALSE
    /\ versions = <<>>
    /\ match = Null

\* Lines 187-228, up to the call of getProtoVersions
NormalizeStep ==
    /\ pc = "start"
    /\ \E r \in {Normalize(versionString)} :
           /\ version' = r.version
           /\ parse' = r.parse
           /\ warned' = r.warned
    /\ pc' = "await"
    /\ UNCHANGED <<versionString, versions, match>>

\* Line 228: getProtoVersions resolves with the listing of the directory
GetProtoVersions ==
    /\ pc = "await"
    /\ \E c \in Catalogs : versions' = c
    /\ pc' = "listed"
    /\ UNCHANGED <<versionString, version, parse, warned, match>>

\* Lines 231-252: the promise is fulfilled with match, or rejected with the
\* TypeError of line 231
SelectStep ==
    /\ pc = "listed"
    /\ \E r \in {Select(version, parse, versions)} :
           /\ match' = r.match
           /\ pc' = IF r.threw THEN "rejected" ELSE "returned"
    /\ UNCHANGED <<versionString, version, parse, warned, versions>>

Next == NormalizeStep \/ GetProtoVersions \/ SelectStep

Spec == Init /\ [][Next]_vars

TypeOK ==
    /\ pc \in {"start", "await", "listed", "returned", "rejected"}
    /\ parse.kind \in {"undefined", "null", "SemVer"}
    /\ warned \in BOOLEAN
    /\ Len(versions) <= MaxCatalog

----------------------------------------------------------------------------
(* Properties *)

Done == pc \in {"returned", "rejected"}

\* The first whitespace-separated token of the raw string
FirstToken == Split(versionString, Space)[1]

HasCommitToken == Len(Split(versionString, Space)) >= 2

\* The set of the elements of a sequence
Elems(seq) == {seq[i] : i \in 1..Len(seq)}

\* A version is at most another under semantic-version precedence
Le(a, b) == Parse(a).ok /\ Parse(b).ok /\ Compare(Parse(a), Parse(b)) <= 0

\* The listing with two neighbours exchanged
Swap(vs, i) ==
    [k \in 1..Len(vs) |->
        IF k = i THEN vs[i + 1] ELSE IF k = i + 1 THEN vs[i] ELSE vs[k]]

\* The listing without the entries that are no semantic version
Parsable(vs) == SelectSeq(vs, LAMBDA v : Parse(v).ok)

\* The build numbers N <= B of the entries `<version>+<N>` of the listing
BuildsAtMost(B) ==
    {n \in 0..B : (version \o <<"+">> \o NatToStr(n)) \in Elems(versions)}

MaxOf(S) == CHOOSE n \in S : \A m \in S : m <= n

\* The build refinement of lines 240-248 replaced the primary match
RefinementApplies ==
    /\ parse.kind = "SemVer"
    /\ Len(parse.build) > 0
    /\ IsPositive(ClosestBuild(version, parse, versions))

\* C1: for every raw string and every listing the call completes with a
\* value; the promise is never rejected.
C1_NeverRejects == pc # "rejected"

\* C2: a result that is not absent is never above the normalised version
\* under semantic-version precedence (build ignored), whether it is the
\* primary match or the build refinement.
C2_NotAboveNormalized ==
    (pc = "returned" /\ match # Null) => Le(match, version)

\* C2 witness: a refined result `<version>+<N>` was returned from a listing
\* that also holds a higher version.
C2_Witness ==
    /\ pc = "returned"
    /\ RefinementApplies
    /\ match = V051 \o <<"+", "7">>
    /\ V060 \in Elems(versions)

\* The candidates' semver portions that are <= the normalised version
AtMostNormalized ==
    {c \in Elems(FilteredVersions(versions)) : Le(c, version)}

\* C3: without build refinement the result is the maximum of the
\* candidates' semver portions that are <= the normalised version
\* (prereleases included, below their release), absent exactly when there
\* is none, and the same for every order of the listing (exchanging
\* neighbours generates every order).
C3_PrimaryIsMaximum ==
    (pc = "returned" /\ ~RefinementApplies) =>
        /\ match = Null <=> AtMostNormalized = {}
        /\ match # Null =>
               /\ match \in AtMostNormalized
               /\ \A c \in AtMostNormalized : Le(c, match)
        /\ \A i \in 1..(Len(versions) - 1) :
               Select(version, parse, Swap(versions, i)).match = match

\* C3 witness: an unsorted listing whose answer is a prerelease that is
\* neither first nor last.
C3_Witness ==
    /\ pc = "returned"
    /\ ~RefinementApplies
    /\ versions = <<V060, V051 \o <<"-">> \o Beta, V050>>
    /\ version = V051
    /\ match = V051 \o <<"-">> \o Beta

\* C4: with a build number B and a candidate `<version>+<N>`, N <= B (0
\* included), the result is `<version>+<M>` for the largest such N;
\* otherwise the primary match stands.
C4_ClosestBuildChosen ==
    (/\ pc = "returned"
     /\ parse.kind = "SemVer"
     /\ Len(parse.build) > 0
     /\ ~parse.build[1].nan) =>
        IF BuildsAtMost(parse.build[1].n) # {}
        THEN match = version \o <<"+">>
                        \o NatToStr(MaxOf(BuildsAtMost(parse.build[1].n)))
        ELSE match = PrimaryMatch(FilteredVersions(versions), version)

\* C5: an entry that is no semantic version is left out of the ranking: the
\* call ends with the result it has on the listing without such entries.
C5_UnparsableExcluded ==
    Done =>
        /\ pc = "returned"
        /\ match = Select(version, parse, Parsable(versions)).match

\* C6: a result that is not absent is one of the strings of the listing.
C6_ResultIsCatalogMember ==
    (pc = "returned" /\ match # Null) => match \in Elems(versions)

\* C7: with an empty listing the result is absent, for every raw string.
C7_EmptyCatalogAbsent ==
    (Done /\ versions = <<>>) => (pc = "returned" /\ match = Null)

\* C7 witness: the call returned on an empty listing after normalisation
\* gave a build number.
C7_Witness ==
    /\ pc = "returned"
    /\ versions = <<>>
    /\ parse.kind = "SemVer"
    /\ parse.build = <<Num(8)>>
    /\ match = Null

\* C8: a canonical semantic version passed without commit token is the
\* version selection runs against, unchanged, with no build number and no
\* refinement.
C8_CanonicalUnchanged ==
    (/\ pc # "start"
     /\ ~HasCommitToken
     /\ Parse(versionString).ok
     /\ Format(Parse(versionString)) = versionString) =>
        /\ version = versionString
        /\ parse.kind = "undefined"
        /\ parse.build = <<>>
        /\ ~RefinementApplies
        /\ pc = "returned" =>
               match = PrimaryMatch(FilteredVersions(versions), versionString)

\* C8 witness: the canonical prerelease version 0.5.1-beta, without commit
\* token, was matched against a listing that holds builds of 0.5.1.
C8_Witness ==
    /\ pc = "returned"
    /\ versionString = V051 \o <<"-">> \o Beta
    /\ V051 \o <<"+", "3">> \in Elems(versions)
    /\ match = V050

\* C9: whenever normalisation fails, the version used for selection is the
\* first token of the raw string, unchanged, and no build number is used.
C9_FallbackUsesFirstToken ==
    (pc # "start" /\ warned) =>
        /\ version = FirstToken
        /\ (parse.kind # "SemVer" \/ parse.build = <<>>)

\* The version text of line 203-206 for the raw string of this call
TruncatedVersion ==
    Join(Slice0(Split(Clean(Replace(Split(versionString, Space)[2],
                                    CommitMarker, <<>>))[1], "-"), 3),
         <<"-">>)

\* Line 210 splits the first prerelease identifier: there is one, and it is
\* a string
ReachesSplit ==
    /\ HasCommitToken
    /\ Clean(Replace(Split(versionString, Space)[2], CommitMarker, <<>>))
           # <<>>
    /\ Parse(TruncatedVersion).ok
    /\ Parse(TruncatedVersion).prerelease # <<>>
    /\ ~IsNumberTyped(Parse(TruncatedVersion).prerelease[1])

\* The sub-tokens of the first prerelease identifier other than `beta`
SubTokens == PrereleaseParts(Parse(TruncatedVersion).prerelease[1])

\* C10: when the first sub-token left is numeric, the prerelease list is
\* cleared and the build number is that sub-token's value, also when other
\* sub-tokens follow; otherwise the sub-tokens are the prerelease list and
\* there is no build number.
C10_NumericSubTokenIsBuild ==
    (pc # "start" /\ ReachesSplit) =>
        IF SubTokens # <<>> /\ AllDigits(SubTokens[1])
        THEN /\ parse.prerelease = <<>>
             /\ parse.build = <<Num(StrToNat(SubTokens[1]))>>
        ELSE /\ parse.prerelease = SubTokens
             /\ parse.build = <<>>

====
